---------------------------- MODULE Spec2Model ----------------------------
(***************************************************************************)
(* The annotation compiler of imgui-ext: the two derive macros of the      *)
(* repository.                                                             *)
(*   - `ImGuiExt`  (src/modules/derive/src/lib.rs): impl_derive,           *)
(*     imgui_body_fields, parse_meta, parse_meta_list, parse_input,        *)
(*     parse_slider, ImGuiAttr::into_token_stream.                         *)
(*   - `Gui`       (src/imgui_derive/src/lib.rs): impl_derive,             *)
(*     struct_body, enum_body.  Its `parser` and `error` modules are not   *)
(*     part of the sources at hand; they are modelled from the design      *)
(*     document (the definitions prefixed parser_ and error_).             *)
(*                                                                         *)
(* A float literal is modelled by an integer (0.0 as 0, 10.0 as 10); all   *)
(* float literals of the bounded sets are exactly representable as f32.    *)
(***************************************************************************)
EXTENDS Integers, Sequences, FiniteSets, TLC

VARIABLES
    meta_list,  \* the syn::MetaList handed to parse_input / parse_slider
    resolved,   \* the Result<ImGuiAttr, Error> returned for meta_list
    derive,     \* which derive macro is expanded: "ImGuiExt" or "Gui"
    input,      \* the DeriveInput (the schema)
    pc,         \* position inside impl_derive
    idx,        \* index of the next field of the fields iterator
    body,       \* the statements collected so far (field_assign / field_body)
    members,    \* input_fields: members of the events type collected so far
    outcome     \* what the derive returned

vars == <<meta_list, resolved, derive, input, pc, idx, body, members, outcome>>

-----------------------------------------------------------------------------
(* Bounds of the model *)

\* longest argument list of a named node `kind( ... )`
MaxArgs == 2
\* largest number of fields (or variants) of a schema
MaxFields == 2
\* largest number of `#[imgui]` attributes on one field
MaxAttrs == 2

-----------------------------------------------------------------------------
(* Messages (the backquotes of the source text are left out) *)

INVALID_ATTR_FORMAT == "Invalid attribute format"
INVALID_IDENT == "Invalid identifier token"
UNSUPPORTED_META == "Unsupported metadata"

AlreadySet(key) ==
    CASE key = "precission" -> "precission attribute already set."
      [] key = "step"       -> "step attribute already set."
      [] key = "step_fast"  -> "step_fast attribute already set."
      [] key = "label"      -> "label attribute already set."
      [] key = "min"        -> "min attribute already set."
      [] key = "max"        -> "max attribute already set."
      [] key = "display"    -> "display attribute already set."

AlreadySetMessages == { AlreadySet(k) : k \in {"precission", "step", "step_fast",
                                               "label", "min", "max", "display"} }

-----------------------------------------------------------------------------
(* Option<T>, literals, errors *)

None == [some |-> FALSE, n |-> 0, s |-> ""]
SomeN(v) == [some |-> TRUE, n |-> v, s |-> ""]
SomeS(v) == [some |-> TRUE, n |-> 0, s |-> v]

\* `lit.value() as i32`: the u64 of an integer literal keeps its low 32
\* bits.  Every literal value of the model is below 2^31 (the integers of
\* the model checker end there), where the cast keeps the value.
AsI32(v) == v

\* `lit.value() as f32`: the f64 of a float literal, rounded to the nearest
\* f32 (ties to even).  An integral value below 2^24 is kept; from 2^24 to
\* 2^25 the f32 values are the even numbers.
AsF32(v) ==
    IF v < 16777216 \/ v % 2 = 0 THEN v
    ELSE IF ((v - 1) \div 2) % 2 = 0 THEN v - 1 ELSE v + 1

\* syn::Lit: the kind of the literal and its value
LitStr(v)   == [kind |-> "Str",   n |-> 0, s |-> v]
LitInt(v)   == [kind |-> "Int",   n |-> v, s |-> ""]
LitFloat(v) == [kind |-> "Float", n |-> v, s |-> ""]
NoLit       == [kind |-> "",      n |-> 0, s |-> ""]

\* syn::parse::Error: the message and the span it is located at.  A span is
\* `at` (which syntax element) with the field, attribute and argument it
\* belongs to (0 where that does not apply).
Error(at, arg, msg) == [msg |-> msg, at |-> at, field |-> 0, attr |-> 0, arg |-> arg]
NoError == Error("", 0, "")

\* ImGuiAttr: the variant and its parameter record
NoAttr == [variant |-> "", label |-> None, display |-> None, min |-> None,
           max |-> None, speed |-> None, power |-> None, precission |-> None,
           step |-> None, step_fast |-> None, selected |-> None]

\* Result<ImGuiAttr, Error>; st = "panic" is a panic! of the macro
Ok(a)    == [st |-> "ok",    attr |-> a,      err |-> NoError, panic |-> ""]
Err(e)   == [st |-> "err",   attr |-> NoAttr, err |-> e,       panic |-> ""]
Panic(m) == [st |-> "panic", attr |-> NoAttr, err |-> NoError, panic |-> m]
NoResult == [st |-> "none",  attr |-> NoAttr, err |-> NoError, panic |-> ""]

-----------------------------------------------------------------------------
(* syn::NestedMeta inside `kind( ... )` *)

NestedLiteral == [form |-> "Literal",   ident |-> "", lit |-> LitStr("x")]
NestedWord(i) == [form |-> "Word",      ident |-> i,  lit |-> NoLit]
NestedList(i) == [form |-> "List",      ident |-> i,  lit |-> NoLit]
NameValue(i, l) == [form |-> "NameValue", ident |-> i, lit |-> l]


\* syn::MetaList: `ident( nested )`
MetaList(i, nested) == [ident |-> i, nested |-> nested]

-----------------------------------------------------------------------------
(* parse_input: `input( ... )` *)

\* the locals step, step_fast, precission, label before the loop
input_locals == [NoAttr EXCEPT !.variant = "Input"]

\* One iteration of the `for item in meta_list.nested.iter()` loop of
\* parse_input on the i-th item, the locals being acc.
input_item(acc, item, i) ==
    IF item.form = "Literal" THEN Err(Error("list", 0, "Unrecognized attribute literal"))
    ELSE IF item.form = "NameValue" /\ item.lit.kind = "Int" THEN
        IF item.ident = "precission" THEN
            IF acc.precission.some THEN Err(Error("ident", i, AlreadySet("precission")))
            ELSE Ok([acc EXCEPT !.precission = SomeN(AsI32(item.lit.n))])
        ELSE Err(Error("ident", i, INVALID_IDENT))
    ELSE IF item.form = "NameValue" /\ item.lit.kind = "Float" THEN
        IF item.ident = "step" THEN
            IF acc.step.some THEN Err(Error("ident", i, AlreadySet("step")))
            ELSE Ok([acc EXCEPT !.step = SomeN(AsF32(item.lit.n))])
        ELSE IF item.ident = "step_fast" THEN
            IF acc.step_fast.some THEN Err(Error("ident", i, AlreadySet("step_fast")))
            ELSE Ok([acc EXCEPT !.step_fast = SomeN(AsF32(item.lit.n))])
        ELSE Err(Error("ident", i, INVALID_IDENT))
    ELSE IF item.form = "NameValue" /\ item.lit.kind = "Str" THEN
        IF item.ident = "label" THEN
            IF acc.label.some THEN Err(Error("ident", i, AlreadySet("label")))
            ELSE Ok([acc EXCEPT !.label = SomeS(item.lit.s)])
        ELSE Err(Error("ident", i, INVALID_IDENT))
    ELSE Err(Error("list", 0, "Unrecognized attribute 2"))

\* the loop from the i-th item on; a `return Err` leaves it
RECURSIVE input_loop(_, _, _)
input_loop(nested, i, acc) ==
    IF i > Len(nested) THEN Ok(acc)
    ELSE LET r == input_item(acc, nested[i], i)
         IN  IF r.st = "ok" THEN input_loop(nested, i + 1, r.attr) ELSE r

parse_input(ml) == input_loop(ml.nested, 1, input_locals)

-----------------------------------------------------------------------------
(* parse_slider: `slider( ... )` *)

\* the locals min, max, label, display before the loop
slider_locals == [NoAttr EXCEPT !.variant = "Slider"]

\* the iteration with a later value of a key replacing the earlier one
slider_item_noset(acc, item, i) ==
    IF item.form = "Literal" THEN Err(Error("list", 0, "Unrecognized attribute literal"))
    ELSE IF item.form = "NameValue" /\ item.lit.kind = "Float" THEN
        IF item.ident = "min"
        THEN Ok([acc EXCEPT !.min = SomeN(AsF32(item.lit.n))])
        ELSE IF item.ident = "max"
        THEN Ok([acc EXCEPT !.max = SomeN(AsF32(item.lit.n))])
        ELSE Err(Error("ident", i, INVALID_IDENT))
    ELSE IF item.form = "NameValue" /\ item.lit.kind = "Str" THEN
        IF item.ident = "label"
        THEN Ok([acc EXCEPT !.label = SomeS(item.lit.s)])
        ELSE IF item.ident = "display"
        THEN Ok([acc EXCEPT !.display = SomeS(item.lit.s)])
        ELSE Err(Error("ident", i, INVALID_IDENT))
    ELSE Err(Error("list", 0, "Unrecognized attribute 2"))

\* One iteration of the loop of parse_slider on the i-th item.
slider_item(acc, item, i) ==
    IF item.form = "Literal" THEN Err(Error("list", 0, "Unrecognized attribute literal"))
    ELSE IF item.form = "NameValue" /\ item.lit.kind = "Float" THEN
        IF item.ident = "min" THEN
            IF acc.min.some THEN Err(Error("ident", i, AlreadySet("min")))
            ELSE Ok([acc EXCEPT !.min = SomeN(AsF32(item.lit.n))])
        ELSE IF item.ident = "max" THEN
            IF acc.max.some THEN Err(Error("ident", i, AlreadySet("max")))
            ELSE Ok([acc EXCEPT !.max = SomeN(AsF32(item.lit.n))])
        ELSE Err(Error("ident", i, INVALID_IDENT))
    ELSE IF item.form = "NameValue" /\ item.lit.kind = "Str" THEN
        IF item.ident = "label" THEN
            IF acc.label.some THEN Err(Error("ident", i, AlreadySet("label")))
            ELSE Ok([acc EXCEPT !.label = SomeS(item.lit.s)])
        ELSE IF item.ident = "display" THEN
            IF acc.display.some THEN Err(Error("ident", i, AlreadySet("display")))
            ELSE Ok([acc EXCEPT !.display = SomeS(item.lit.s)])
        ELSE Err(Error("ident", i, INVALID_IDENT))
    ELSE Err(Error("list", 0, "Unrecognized attribute 2"))

RECURSIVE slider_loop(_, _, _)
slider_loop(nested, i, acc) ==
    IF i > Len(nested) THEN Ok(acc)
    ELSE LET r == slider_item(acc, nested[i], i)
         IN  IF r.st = "ok" THEN slider_loop(nested, i + 1, r.attr) ELSE r

\* the build with max looked at before min
slider_build_max_first(acc) ==
    IF ~acc.max.some THEN Err(Error("list", 0, "Attribute max missing."))
    ELSE IF ~acc.min.some THEN Err(Error("list", 0, "Attribute min missing."))
    ELSE Ok(acc)

\* `Ok(ImGuiAttr::Slider { min: min.ok_or(..)?, max: max.ok_or(..)?, .. })`
slider_build(acc) ==
    IF ~acc.min.some THEN Err(Error("list", 0, "Attribute min missing."))
    ELSE IF ~acc.max.some THEN Err(Error("list", 0, "Attribute max missing."))
    ELSE Ok(acc)

parse_slider(ml) ==
    LET r == slider_loop(ml.nested, 1, slider_locals)
    IN  IF r.st = "ok" THEN slider_build(r.attr) ELSE r


-----------------------------------------------------------------------------
(* The attributes of a field and their syn::Meta *)

\* a NestedMeta directly inside `#[imgui( ... )]`; a List carries its items
TopLiteral        == [form |-> "Literal",   ident |-> "", lit |-> LitStr("x"), nested |-> <<>>]
TopWord(i)        == [form |-> "Word",      ident |-> i,  lit |-> NoLit,       nested |-> <<>>]
TopNameValue(i, l) == [form |-> "NameValue", ident |-> i,  lit |-> l,           nested |-> <<>>]
TopList(i, items) == [form |-> "List",      ident |-> i,  lit |-> NoLit,       nested |-> items]

\* syn::Attribute: its path, whether Attribute::parse_meta accepts its
\* tokens, and the Meta it then yields
Attr(form, nested) == [path |-> "imgui", parses |-> TRUE, form |-> form, nested |-> nested]
AttrMalformed      == [path |-> "imgui", parses |-> FALSE, form |-> "", nested |-> <<>>]
AttrOther          == [path |-> "doc", parses |-> TRUE, form |-> "NameValue", nested |-> <<>>]

\* `#[imgui]`, `#[imgui = "x"]`, `#[imgui( item )]`
AttrWord      == Attr("Word", <<>>)
AttrNameValue == Attr("NameValue", <<>>)
AttrOf(item)  == Attr("List", <<item>>)

\* TypeCategory of the declared type of a field
Ty(cat, len) == [cat |-> cat, len |-> len]
NumericScalar == Ty("NumericScalar", 0)
Boolean == Ty("Boolean", 0)
FixedStringArray(len) == Ty("FixedStringArray", len)

\* syn::Field (or, of an enum, syn::Variant with `arity` fields, `ty` the
\* type of the first one); `name` is the identifier of a named field
Field(name, ty, attrs, arity) == [name |-> name, ty |-> ty, attrs |-> attrs, arity |-> arity]

\* syn::DeriveInput: Data::Struct / Data::Enum / Data::Union; `named` tells
\* Fields::Named from Fields::Unnamed
DeriveInput(data, named, fields) == [data |-> data, named |-> named, fields |-> fields]

-----------------------------------------------------------------------------
(* Generated code *)

\* one `name: value` of a parameter record: value is `Some(..)`, `None`, a
\* bare literal or `im_str!(..)`
Param(name, form, n, s) == [name |-> name, form |-> form, n |-> n, s |-> s]
OptN(name, o) == IF o.some THEN Param(name, "Some", o.n, "") ELSE Param(name, "None", 0, "")
OptS(name, o) == IF o.some THEN Param(name, "Some", 0, o.s) ELSE Param(name, "None", 0, "")

\* `[events.member =] Kind::build(ui, &mut ext.field, KindParams { params })`
Stmt(build, field, params, member) ==
    [build |-> build, field |-> field, params |-> params, member |-> member]

\* TokenStream::new()
EmptyStream == Stmt("", "", <<>>, "")

\* `label.unwrap_or(ident.to_string())`
LabelOr(label, ident) == IF label.some THEN label.s ELSE ident

\* into_token_stream with the absent parameters of Drag left out of the record
into_token_stream_omit(attr, ident) ==
    CASE attr.variant = "Simple" ->
            Stmt("Simple", ident, << Param("label", "im_str", 0, LabelOr(attr.label, ident)) >>, "")
      [] attr.variant = "Input" ->
            Stmt("Input", ident,
                 << Param("label", "im_str", 0, LabelOr(attr.label, ident)),
                    OptN("precission", attr.precission),
                    OptN("step", attr.step),
                    OptN("step_fast", attr.step_fast) >>, "")
      [] attr.variant = "Slider" ->
            Stmt("Slider", ident,
                 << Param("min", "Bare", attr.min.n, ""),
                    Param("max", "Bare", attr.max.n, ""),
                    Param("label", "im_str", 0, LabelOr(attr.label, ident)),
                    OptS("display", attr.display) >>, "")
      [] attr.variant = "Drag" ->
            Stmt("Drag", ident,
                 SelectSeq(<< Param("label", "im_str", 0, LabelOr(attr.label, ident)),
                              OptS("display", attr.display),
                              OptN("min", attr.min),
                              OptN("max", attr.max),
                              OptN("power", attr.power),
                              OptN("speed", attr.speed) >>,
                           LAMBDA q : q.form # "None"), "")

\* ImGuiAttr::into_token_stream
into_token_stream(attr, ident) ==
    CASE attr.variant = "Simple" ->
            Stmt("Simple", ident, << Param("label", "im_str", 0, LabelOr(attr.label, ident)) >>, "")
      [] attr.variant = "Input" ->
            Stmt("Input", ident,
                 << Param("label", "im_str", 0, LabelOr(attr.label, ident)),
                    OptN("precission", attr.precission),
                    OptN("step", attr.step),
                    OptN("step_fast", attr.step_fast) >>, "")
      [] attr.variant = "Slider" ->
            Stmt("Slider", ident,
                 << Param("min", "Bare", attr.min.n, ""),
                    Param("max", "Bare", attr.max.n, ""),
                    Param("label", "im_str", 0, LabelOr(attr.label, ident)),
                    OptS("display", attr.display) >>, "")
      [] attr.variant = "Drag" ->
            Stmt("Drag", ident,
                 << Param("label", "im_str", 0, LabelOr(attr.label, ident)),
                    OptS("display", attr.display),
                    OptN("min", attr.min),
                    OptN("max", attr.max),
                    OptN("power", attr.power),
                    OptN("speed", attr.speed) >>, "")

-----------------------------------------------------------------------------
(* The ImGuiExt derive: parse_meta_list, parse_meta, imgui_body_fields *)

Simple(label) == [NoAttr EXCEPT !.variant = "Simple", !.label = label]

\* parse_meta_list with every bare word taken as the widget input
parse_meta_list_any_word(meta) ==
    IF Len(meta.nested) # 1 THEN Err(Error("meta", 0, INVALID_ATTR_FORMAT))
    ELSE LET attr == meta.nested[1] IN
        CASE attr.form = "Literal" -> Err(Error("meta", 0, INVALID_ATTR_FORMAT))
          [] attr.form = "NameValue" /\ attr.lit.kind = "Str" ->
                IF attr.ident = "label" THEN Ok(Simple(SomeS(attr.lit.s)))
                ELSE Err(Error("ident", 0, INVALID_IDENT))
          [] attr.form = "List" ->
                CASE attr.ident = "input"  -> parse_input(MetaList(attr.ident, attr.nested))
                  [] attr.ident = "slider" -> parse_slider(MetaList(attr.ident, attr.nested))
                  [] attr.ident = "drag"   -> Panic("not yet implemented: drag")
                  [] OTHER -> Err(Error("list", 0, UNSUPPORTED_META))
          [] attr.form = "Word" ->
                CASE attr.ident = "drag"  -> Ok([NoAttr EXCEPT !.variant = "Drag"])
                  [] OTHER -> Ok([NoAttr EXCEPT !.variant = "Input"])
          [] OTHER -> Err(Error("name", 0, INVALID_ATTR_FORMAT))

\* the tokens between the parentheses of `#[imgui( ... )]`
parse_meta_list(meta) ==
    IF Len(meta.nested) # 1 THEN Err(Error("meta", 0, INVALID_ATTR_FORMAT))
    ELSE LET attr == meta.nested[1] IN
        CASE attr.form = "Literal" -> Err(Error("meta", 0, INVALID_ATTR_FORMAT))
          [] attr.form = "NameValue" /\ attr.lit.kind = "Str" ->
                IF attr.ident = "label" THEN Ok(Simple(SomeS(attr.lit.s)))
                ELSE Err(Error("ident", 0, INVALID_IDENT))
          [] attr.form = "List" ->
                CASE attr.ident = "input"  -> parse_input(MetaList(attr.ident, attr.nested))
                  [] attr.ident = "slider" -> parse_slider(MetaList(attr.ident, attr.nested))
                  [] attr.ident = "drag"   -> Panic("not yet implemented: drag")
                  [] OTHER -> Err(Error("list", 0, UNSUPPORTED_META))
          [] attr.form = "Word" ->
                CASE attr.ident = "input" -> Ok([NoAttr EXCEPT !.variant = "Input"])
                  [] attr.ident = "drag"  -> Ok([NoAttr EXCEPT !.variant = "Drag"])
                  [] OTHER -> Err(Error("name", 0, INVALID_ATTR_FORMAT))
          [] OTHER -> Err(Error("name", 0, INVALID_ATTR_FORMAT))

\* `#[imgui ...]`
parse_meta(meta) ==
    CASE meta.form = "Word" -> Ok(Simple(None))
      [] meta.form = "List" -> parse_meta_list(meta)
      [] meta.form = "NameValue" -> Err(Error("meta", 0, INVALID_ATTR_FORMAT))

\* is_imgui_attr
is_imgui_attr(attr) == attr.path = "imgui"

\* the positions in attrs of the `#[imgui]` attributes, in order
ImguiAttrs(attrs) == SelectSeq([i \in 1..Len(attrs) |-> i], LAMBDA i : is_imgui_attr(attrs[i]))

\* an error located in the k-th attribute of the f-th field
At(e, f, k) == [e EXCEPT !.field = f, !.attr = k]

\* Result of one field: the statement it yields (or an error, or a panic)
FieldOk(stmts) == [st |-> "ok",    stmts |-> stmts, err |-> NoError, panic |-> ""]
FieldErr(e)    == [st |-> "err",   stmts |-> <<>>,  err |-> e,       panic |-> ""]
FieldPanic(m)  == [st |-> "panic", stmts |-> <<>>,  err |-> NoError, panic |-> m]

\* the closure of imgui_body_fields from `let attr_meta` on: the one
\* attribute of the f-th field, at position k, parsed and emitted
imgui_field_tokens(field, named, f, k) ==
    IF ~named THEN
        \* `field.ident.as_ref().unwrap()`
        FieldPanic("called Option::unwrap() on a None value")
    ELSE LET r == parse_meta(field.attrs[k]) IN
        CASE r.st = "ok"    -> FieldOk(<< into_token_stream(r.attr, field.name) >>)
          [] r.st = "err"   -> FieldErr(At(r.err, f, k))
          [] r.st = "panic" -> FieldPanic(r.panic)

\* the closure with a field without attribute drawn as `#[imgui]`
imgui_body_field_always(field, named, f) ==
    LET at == ImguiAttrs(field.attrs)
        bad == { k \in 1..Len(at) : ~field.attrs[at[k]].parses }
    IN  IF bad # {} THEN
            FieldErr(At(Error("attr", 0, "parse error"), f,
                        at[CHOOSE k \in bad : \A j \in bad : k <= j]))
        ELSE IF Len(at) = 0 THEN
            IF named THEN FieldOk(<< into_token_stream(Simple(None), field.name) >>)
            ELSE FieldOk(<< EmptyStream >>)
        ELSE IF Len(at) > 1 THEN
            FieldErr(At(Error("field", 0, "Only one #[imgui] tag per attribute is allowed"), f, 0))
        ELSE imgui_field_tokens(field, named, f, at[1])

\* the closure of imgui_body_fields, on the f-th field
imgui_body_field(field, named, f) ==
    LET at == ImguiAttrs(field.attrs)
        bad == { k \in 1..Len(at) : ~field.attrs[at[k]].parses }
    IN  IF bad # {} THEN
            \* `.map(Attribute::parse_meta).collect::<Result<..>>()?`
            FieldErr(At(Error("attr", 0, "parse error"), f,
                        at[CHOOSE k \in bad : \A j \in bad : k <= j]))
        ELSE IF Len(at) = 0 THEN FieldOk(<< EmptyStream >>)
        ELSE IF Len(at) > 1 THEN
            FieldErr(At(Error("field", 0, "Only one #[imgui] tag per attribute is allowed"), f, 0))
        ELSE imgui_field_tokens(field, named, f, at[1])

-----------------------------------------------------------------------------
(* The Gui derive: its parser and error modules, after the design document *)

\* Error::multiple, Error::non_struct, Error::new(ErrorKind::ParseError, ..)
error_multiple(f, k) == At(Error("attr", 0, "MultipleDirectives"), f, k)
error_non_struct     == Error("input", 0, "NonStruct")
error_parse(f, k)    == At(Error("attr", 0, "ParseError"), f, k)

\* the registry of widget kinds: the declared parameters of a kind, in
\* declaration order, each with its literal kind and whether it is required
Decl(key, lit, required) == [key |-> key, lit |-> lit, required |-> required]
parser_registry(kind) ==
    CASE kind = "input" ->
            << Decl("label", "Str", FALSE), Decl("precission", "Int", FALSE),
               Decl("step", "Float", FALSE), Decl("step_fast", "Float", FALSE) >>
      [] kind = "slider" ->
            << Decl("label", "Str", FALSE), Decl("display", "Str", FALSE),
               Decl("min", "Float", TRUE), Decl("max", "Float", TRUE) >>
      [] kind = "drag" ->
            << Decl("label", "Str", FALSE), Decl("display", "Str", FALSE),
               Decl("min", "Float", FALSE), Decl("max", "Float", FALSE),
               Decl("speed", "Float", FALSE), Decl("power", "Float", FALSE) >>
      [] kind = "combobox" ->
            << Decl("label", "Str", FALSE), Decl("selected", "Int", TRUE) >>
      [] OTHER -> << >>

parser_variant(kind) ==
    CASE kind = "input" -> "Input" [] kind = "slider" -> "Slider"
      [] kind = "drag" -> "Drag"   [] kind = "combobox" -> "Combobox"
      [] OTHER -> ""

parser_expected(lit) ==
    CASE lit = "Str" -> "LiteralKindMismatch: expected a string"
      [] lit = "Int" -> "LiteralKindMismatch: expected an integer"
      [] lit = "Float" -> "LiteralKindMismatch: expected a float"

\* the parameter table of one named node, scanned from the i-th pair on
RECURSIVE parser_scan(_, _, _, _)
parser_scan(decls, nested, i, acc) ==
    IF i > Len(nested) THEN Ok(acc)
    ELSE LET item == nested[i]
             d == { j \in 1..Len(decls) : decls[j].key = item.ident }
         IN  IF item.form # "NameValue" THEN Err(Error("arg", i, "SyntaxError"))
             ELSE IF d = {} THEN Err(Error("ident", i, "UnrecognizedParameter"))
             ELSE LET decl == decls[CHOOSE j \in d : TRUE] IN
                 IF decl.lit # item.lit.kind
                 THEN Err(Error("ident", i, parser_expected(decl.lit)))
                 ELSE IF acc[item.ident].some
                 THEN Err(Error("ident", i, "ParameterAlreadySet"))
                 ELSE parser_scan(decls, nested, i + 1,
                         [acc EXCEPT ![item.ident] =
                            IF decl.lit = "Str" THEN SomeS(item.lit.s) ELSE SomeN(item.lit.n)])

parser_missing_message(key) ==
    CASE key = "min" -> "MissingRequiredParameter: min"
      [] key = "max" -> "MissingRequiredParameter: max"
      [] key = "selected" -> "MissingRequiredParameter: selected"

\* the required parameters left unset (positions in declaration order)
parser_missing(decls, acc) == { j \in 1..Len(decls) : decls[j].required /\ ~acc[decls[j].key].some }

parser_named(node) ==
    LET decls == parser_registry(node.ident) IN
    IF decls = << >> THEN Err(Error("list", 0, "UnsupportedWidgetKind"))
    ELSE LET r == parser_scan(decls, node.nested, 1,
                              [NoAttr EXCEPT !.variant = parser_variant(node.ident)])
         IN  IF r.st # "ok" THEN r
             ELSE IF parser_missing(decls, r.attr) # {}
             THEN Err(Error("list", 0,
                        parser_missing_message(decls[CHOOSE j \in parser_missing(decls, r.attr) :
                            \A k \in parser_missing(decls, r.attr) : j <= k].key)))
             ELSE r

\* parser::parse_meta: the Tag of one directive
parser_parse_meta(meta) ==
    CASE meta.form = "Word" -> Ok(Simple(None))
      [] meta.form = "NameValue" -> Err(Error("meta", 0, "SyntaxError"))
      [] meta.form = "List" ->
            IF Len(meta.nested) # 1 THEN Err(Error("meta", 0, "SyntaxError"))
            ELSE LET node == meta.nested[1] IN
                CASE node.form = "Word" /\ node.ident \in {"input", "drag"} ->
                        Ok([NoAttr EXCEPT !.variant = parser_variant(node.ident)])
                  [] node.form = "NameValue" /\ node.ident = "label" /\ node.lit.kind = "Str" ->
                        Ok(Simple(SomeS(node.lit.s)))
                  [] node.form = "List" -> parser_named(node)
                  [] OTHER -> Err(Error("meta", 0, "SyntaxError"))

\* the categories a Tag variant accepts
parser_accepts(variant, ty) ==
    CASE variant \in {"Input", "Slider", "Drag"} -> ty.cat = "NumericScalar"
      [] variant = "Combobox" -> ty.cat = "FixedStringArray"
      [] OTHER -> TRUE

\* the statement of a Tag of the Gui derive: as into_token_stream, the
\* result stored into the member of the events value
parser_stmt(tag, ident) ==
    IF tag.variant = "Combobox"
    THEN Stmt("Combobox", ident,
              << Param("label", "im_str", 0, LabelOr(tag.label, ident)),
                 Param("selected", "Bare", tag.selected.n, "") >>, ident)
    ELSE [into_token_stream(tag, ident) EXCEPT !.member = ident]

\* parser::emmit_tag_tokens: the compatibility check, then the statement
parser_emmit_tag_tokens(ident, ty, tag, f, k) ==
    IF ~parser_accepts(tag.variant, ty)
    THEN FieldErr(At(Error("attr", 0, "TypeIncompatible"), f, k))
    ELSE IF tag.variant = "Combobox" /\ ~(tag.selected.n \in 0..(ty.len - 1))
    THEN FieldErr(At(Error("attr", 0, "IndexOutOfRange"), f, k))
    ELSE FieldOk(<< parser_stmt(tag, ident) >>)

\* the result type of the build operation of a widget
parser_result_type(build) == IF build = "Combobox" THEN "selection" ELSE "bool"

\* struct_body and enum_body, from `collect all the imgui attributes` on:
\* the match on the first two `#[imgui]` attributes of the f-th field
body_attrs(ident, ty, attrs, f) ==
    LET at == ImguiAttrs(attrs) IN
    IF Len(at) = 0 THEN FieldOk(<< EmptyStream >>)
    ELSE IF Len(at) >= 2 THEN FieldErr(error_multiple(f, at[2]))
    ELSE LET attr == attrs[at[1]] IN
        IF ~attr.parses THEN FieldErr(error_parse(f, at[1]))
        ELSE LET tags == parser_parse_meta(attr) IN
            IF tags.st = "err" THEN FieldErr(At(tags.err, f, at[1]))
            ELSE parser_emmit_tag_tokens(ident, ty, tags.attr, f, at[1])

\* the closure of struct_body, on the f-th field
struct_body_field(field, named, f) ==
    IF ~named THEN FieldPanic("Unnamed fields not yet supported.")
    ELSE body_attrs(field.name, field.ty, field.attrs, f)

\* the closure of enum_body, on the f-th variant
enum_body_variant(variant, f) ==
    IF variant.arity = 0 THEN FieldPanic("No field")
    ELSE body_attrs(variant.name, variant.ty, variant.attrs, f)


-----------------------------------------------------------------------------
(* What a derive returns *)

\* the generated code: the statements of the rendering routine, the members
\* of the events type and how the events value is first constructed
Artifact(stmts, mems, init) == [some |-> TRUE, body |-> stmts, members |-> mems, events_init |-> init]
NoArtifact == [some |-> FALSE, body |-> <<>>, members |-> <<>>, events_init |-> ""]

Returned(st, e, m, a) == [st |-> st, err |-> e, panic |-> m, artifact |-> a]
NoOutcome == Returned("none", NoError, "", NoArtifact)

\* the members the statements of a field add to input_fields: one for each
\* member name that input_fields_set does not hold yet
RECURSIVE AddMembers(_, _)
AddMembers(mems, stmts) ==
    IF stmts = <<>> THEN mems
    ELSE LET st == Head(stmts)
             held == { mems[i].name : i \in 1..Len(mems) }
         IN  AddMembers(IF st.member = "" \/ st.member \in held THEN mems
                        ELSE Append(mems, [name |-> st.member,
                                           result |-> parser_result_type(st.build)]),
                        Tail(stmts))

\* `let mut events: Self::Events = unsafe { std::mem::zeroed() };`
events_init == "zeroed"

-----------------------------------------------------------------------------
(* Actions of the ImGuiExt derive (src/modules/derive) *)

\* impl_derive, up to the call of imgui_body_fields
ImGuiExt_impl_derive ==
    /\ derive = "ImGuiExt" /\ pc = "start"
    /\ IF input.data = "Struct"
       THEN pc' = "fields" /\ outcome' = outcome
       ELSE /\ pc' = "done"
            /\ outcome' = Returned("err", Error("input", 0, "Only structs"), "", NoArtifact)
    /\ UNCHANGED <<meta_list, resolved, derive, input, idx, body, members>>

\* what the run of a field closure does to the state of the derive
FieldStep(r) ==
    IF r.st = "ok"
    THEN /\ body' = body \o r.stmts
         /\ members' = AddMembers(members, r.stmts)
         /\ idx' = idx + 1
         /\ UNCHANGED <<pc, outcome>>
    ELSE /\ pc' = "done"
         /\ outcome' = Returned(r.st, r.err, r.panic, NoArtifact)
         /\ UNCHANGED <<idx, body, members>>

\* imgui_body_fields: the next field of `fields.iter().map(..)`, collected
\* into a Result (the first Err ends the iteration)
imgui_body_fields ==
    /\ derive = "ImGuiExt" /\ pc = "fields" /\ idx <= Len(input.fields)
    /\ FieldStep(imgui_body_field(input.fields[idx], input.named, idx))
    /\ UNCHANGED <<meta_list, resolved, derive, input>>

\* the iteration is over: `Ok(quote! { #( #field_assign );* })` and the
\* `Ok(quote! { impl .. })` of impl_derive
ImGuiExt_quote ==
    /\ derive = "ImGuiExt" /\ pc = "fields" /\ idx > Len(input.fields)
    /\ pc' = "done"
    /\ outcome' = Returned("ok", NoError, "", Artifact(body, <<>>, ""))
    /\ UNCHANGED <<meta_list, resolved, derive, input, idx, body, members>>

-----------------------------------------------------------------------------
(* Actions of the Gui derive (src/imgui_derive) *)

\* impl_derive, up to the call of struct_body or enum_body
Gui_impl_derive ==
    /\ derive = "Gui" /\ pc = "start"
    /\ IF input.data \in {"Struct", "Enum"}
       THEN pc' = "fields" /\ outcome' = outcome
       ELSE /\ pc' = "done"
            /\ outcome' = Returned("err", error_non_struct, "", NoArtifact)
    /\ UNCHANGED <<meta_list, resolved, derive, input, idx, body, members>>

\* struct_body: the next field of `fields.iter().enumerate().flat_map(..)`
struct_body ==
    /\ derive = "Gui" /\ pc = "fields" /\ input.data = "Struct"
    /\ idx <= Len(input.fields)
    /\ FieldStep(struct_body_field(input.fields[idx], input.named, idx))
    /\ UNCHANGED <<meta_list, resolved, derive, input>>

\* enum_body: the next variant
enum_body ==
    /\ derive = "Gui" /\ pc = "fields" /\ input.data = "Enum"
    /\ idx <= Len(input.fields)
    /\ FieldStep(enum_body_variant(input.fields[idx], idx))
    /\ UNCHANGED <<meta_list, resolved, derive, input>>

\* the iteration is over: `Ok((quote! { .. }, input_fields, input_methods))`
\* and the `Ok(quote! { .. })` of impl_derive
Gui_quote ==
    /\ derive = "Gui" /\ pc = "fields" /\ idx > Len(input.fields)
    /\ pc' = "done"
    /\ outcome' = Returned("ok", NoError, "", Artifact(body, members, events_init))
    /\ UNCHANGED <<meta_list, resolved, derive, input, idx, body, members>>

Next ==
    \/ ImGuiExt_impl_derive
    \/ imgui_body_fields
    \/ ImGuiExt_quote
    \/ Gui_impl_derive
    \/ struct_body
    \/ enum_body
    \/ Gui_quote

-----------------------------------------------------------------------------
(* Resolution of one named node: parse_input and parse_slider applied *)

ParseInput ==
    /\ meta_list.ident = "input" /\ resolved.st = "none"
    /\ resolved' = parse_input(meta_list)
    /\ UNCHANGED <<meta_list, derive, input, pc, idx, body, members, outcome>>

ParseSlider ==
    /\ meta_list.ident = "slider" /\ resolved.st = "none"
    /\ resolved' = parse_slider(meta_list)
    /\ UNCHANGED <<meta_list, derive, input, pc, idx, body, members, outcome>>

NextArgs == ParseInput \/ ParseSlider

-----------------------------------------------------------------------------
(* Emission of one tag: ImGuiAttr::into_token_stream applied *)

\* the optional fields of a variant of ImGuiAttr
OptionalParams(variant) ==
    CASE variant = "Simple" -> {}
      [] variant = "Input"  -> {"precission", "step", "step_fast"}
      [] variant = "Slider" -> {"display"}
      [] variant = "Drag"   -> {"display", "min", "max", "speed", "power"}

\* `parse_meta(attr_meta)?.into_token_stream(&ident)` from the tag on
EmitTag ==
    /\ pc = "emit" /\ resolved.st = "ok"
    /\ body' = << into_token_stream(resolved.attr, input.fields[1].name) >>
    /\ pc' = "done"
    /\ UNCHANGED <<meta_list, resolved, derive, input, idx, members, outcome>>

NextEmit == EmitTag


-----------------------------------------------------------------------------
(* The inputs *)

\* all sequences over S of length lo to hi
SeqsOf(S, lo, hi) == UNION { [1..n -> S] : n \in lo..hi }

\* the declared keys of input and slider, and one that neither declares
InputKeys  == {"label", "precission", "step", "step_fast"}
SliderKeys == {"label", "display", "min", "max"}
Keys == InputKeys \cup SliderKeys \cup {"speed"}

Lits == { LitStr("Speed"), LitStr("%.1f"), LitFloat(0), LitFloat(10), LitInt(1), LitInt(2) }

\* the items of an argument list
Items == { NameValue(k, l) : k \in Keys, l \in Lits }
            \cup { NestedLiteral, NestedWord("speed"), NestedList("speed") }

\* the argument lists: all up to MaxArgs items, and those of two items
\* behind a pair whose key neither widget declares
ArgLists ==
    SeqsOf(Items, 0, MaxArgs)
      \cup { << NameValue("speed", LitFloat(0)) >> \o l : l \in SeqsOf(Items, 2, 2) }

\* `drag(label = "Speed", min = 0.0, max = 10.0)`
DragSpeedArgs == << NameValue("label", LitStr("Speed")), NameValue("min", LitFloat(0)),
                   NameValue("max", LitFloat(10)) >>

\* the directives of the schemas
Directives ==
    { AttrWord, AttrNameValue, AttrMalformed, AttrOther,
      AttrOf(TopLiteral),
      AttrOf(TopNameValue("label", LitStr("Speed"))),
      AttrOf(TopNameValue("display", LitStr("Speed"))),
      AttrOf(TopNameValue("label", LitInt(1))),
      AttrOf(TopWord("input")), AttrOf(TopWord("drag")), AttrOf(TopWord("slider")),
      AttrOf(TopList("input", << NameValue("step", LitFloat(10)) >>)),
      AttrOf(TopList("slider", << NameValue("min", LitFloat(0)), NameValue("max", LitFloat(10)) >>)),
      AttrOf(TopList("slider", << NameValue("max", LitFloat(10)) >>)),
      AttrOf(TopList("slider", << NameValue("min", LitStr("Speed")), NameValue("max", LitFloat(10)) >>)),
      AttrOf(TopList("drag", DragSpeedArgs)),
      AttrOf(TopList("progress", << >>)),
      AttrOf(TopList("combobox", << NameValue("label", LitStr("Speed")), NameValue("selected", LitInt(1)) >>)),
      Attr("List", << TopWord("input"), TopWord("drag") >>),
      Attr("List", << >>) }

\* the directives that the fields of a schema of several fields repeat
RepeatedDirectives == { AttrWord, AttrMalformed }

Types == { NumericScalar, Boolean, FixedStringArray(3) }

\* the name of the f-th field
FieldName(f) == CASE f = 1 -> "speed" [] f = 2 -> "b" [] f = 3 -> "c" [] OTHER -> "d"

\* The schemas whose fields carry the attribute lists A, have a type of T
\* and are at most n: structs of named or unnamed fields, enums whose
\* variants have a field or none, and a union.
InitDerive(A, T, n) ==
    /\ derive \in {"ImGuiExt", "Gui"}
    /\ \E data \in {"Struct", "Enum", "Union"}, named \in BOOLEAN, k \in 0..n :
         \E x \in [1..k -> T \X A \X (IF data = "Enum" THEN {0, 1} ELSE {1})] :
            /\ data # "Struct" => named
            /\ data = "Union" => (k = 1 /\ x[1] = << NumericScalar, << >>, 1 >>)
            /\ input = DeriveInput(data, named,
                          [f \in 1..k |-> Field(FieldName(f), x[f][1], x[f][2], x[f][3])])
    /\ pc = "start" /\ idx = 1 /\ body = <<>> /\ members = <<>>
    /\ outcome = NoOutcome
    /\ meta_list = MetaList("", <<>>) /\ resolved = NoResult

\* schemas of up to MaxFields fields
Init ==
    InitDerive(SeqsOf(Directives, 0, 1) \cup SeqsOf(RepeatedDirectives, 2, MaxAttrs),
               {NumericScalar}, MaxFields)

\* schemas of one field
InitField == InitDerive(SeqsOf(Directives, 0, MaxAttrs), Types, 1)

\* one named node `input( .. )` or `slider( .. )`
InitArgs ==
    /\ meta_list \in { MetaList(k, l) : k \in {"input", "slider"}, l \in ArgLists }
    /\ resolved = NoResult
    /\ derive = "ImGuiExt" /\ input = DeriveInput("Struct", TRUE, <<>>)
    /\ pc = "done" /\ idx = 1 /\ body = <<>> /\ members = <<>>
    /\ outcome = NoOutcome

\* the values of an optional string and of an optional number
OptStrs == { None, SomeS("Speed"), SomeS("%.1f") }
OptNums == { None, SomeN(0), SomeN(10) }

\* the tags: every variant of ImGuiAttr, each field set or absent
Tags ==
    { Simple(l) : l \in OptStrs }
      \cup { [NoAttr EXCEPT !.variant = "Input", !.label = x[1], !.precission = x[2],
                            !.step = x[3], !.step_fast = x[4]] :
               x \in OptStrs \X OptNums \X OptNums \X OptNums }
      \cup { [NoAttr EXCEPT !.variant = "Slider", !.label = x[1], !.display = x[2],
                            !.min = x[3], !.max = x[4]] :
               x \in OptStrs \X OptStrs \X (OptNums \ {None}) \X (OptNums \ {None}) }
      \cup { [NoAttr EXCEPT !.variant = "Drag", !.label = x[1], !.display = x[2],
                            !.min = x[3], !.max = x[4], !.speed = x[5], !.power = x[6]] :
               x \in OptStrs \X OptStrs \X OptNums \X OptNums \X OptNums \X OptNums }

\* one tag about to be emitted for a named field
InitEmit ==
    /\ resolved \in { Ok(a) : a \in Tags }
    /\ \E f \in 1..2 :
          input = DeriveInput("Struct", TRUE, << Field(FieldName(f), NumericScalar, << AttrWord >>, 1) >>)
    /\ derive = "ImGuiExt" /\ pc = "emit" /\ idx = 1 /\ body = <<>> /\ members = <<>>
    /\ outcome = NoOutcome
    /\ meta_list = MetaList("", <<>>)

Spec == Init /\ [][Next]_vars
SpecField == InitField /\ [][Next]_vars
SpecArgs == InitArgs /\ [][NextArgs]_vars
SpecEmit == InitEmit /\ [][NextEmit]_vars


-----------------------------------------------------------------------------
(* Properties *)

Fields == input.fields
Annotated(f) == Len(ImguiAttrs(Fields[f].attrs)) >= 1
AnnotatedFields == SelectSeq([f \in 1..Len(Fields) |-> f], Annotated)

\* the widget-build invocations of a sequence of statements
Invocations(stmts) == SelectSeq(stmts, LAMBDA st : st.build # "")

\* the derive went through the fields of the schema
FieldsProcessed == input.data = "Struct" \/ (derive = "Gui" /\ input.data = "Enum")

\* what the closure of the running derive yields for the f-th field
FieldResult(f) ==
    IF derive = "ImGuiExt" THEN imgui_body_field(Fields[f], input.named, f)
    ELSE IF input.data = "Struct" THEN struct_body_field(Fields[f], input.named, f)
    ELSE enum_body_variant(Fields[f], f)

Diagnosing == { f \in 1..Len(Fields) : FieldResult(f).st = "err" }

MultipleMessages == { "MultipleDirectives", "Only one #[imgui] tag per attribute is allowed" }

\* C1: a named field of a struct with two or more imgui directives makes the
\* derive fail with the multiple-directives diagnostic, located at the
\* second directive, whatever the directives contain.
C1_MultipleAtSecond ==
    (/\ pc = "done" /\ input.data = "Struct" /\ input.named
     /\ Len(Fields) = 1 /\ Len(ImguiAttrs(Fields[1].attrs)) >= 2)
    => /\ outcome.st = "err"
       /\ outcome.err.msg \in MultipleMessages
       /\ outcome.err.at = "attr"
       /\ outcome.err.field = 1
       /\ outcome.err.attr = ImguiAttrs(Fields[1].attrs)[2]

\* C2: when some field of the schema would produce a diagnostic, the derive
\* returns the diagnostic of the earliest such field and no artifact.
C2_EarliestDiagnostic ==
    (pc = "done" /\ FieldsProcessed /\ Diagnosing # {})
    => /\ outcome.st = "err"
       /\ outcome.err = FieldResult(CHOOSE f \in Diagnosing : \A g \in Diagnosing : f <= g).err
       /\ ~outcome.artifact.some

\* C3: a derive that has ended returned either one diagnostic with a source
\* coordinate and a message, or the generated artifacts; nothing else.
C3_TwoOutcomes ==
    pc = "done"
    => \/ /\ outcome.st = "err" /\ outcome.err.msg # "" /\ outcome.err.at # ""
          /\ ~outcome.artifact.some
       \/ outcome.st = "ok" /\ outcome.artifact.some

C5_Unannotated ==
    (pc = "done" /\ input.data = "Struct" /\ AnnotatedFields = << >>)
    => /\ outcome.st = "ok"
       /\ Invocations(outcome.artifact.body) = << >>
       /\ outcome.artifact.members = << >>

\* the parameter `name` of a statement
ParamOf(st, name) == st.params[CHOOSE i \in 1..Len(st.params) : st.params[i].name = name]
HasParam(st, name) == \E i \in 1..Len(st.params) : st.params[i].name = name

\* C6: the numeric field `speed` annotated drag(label = "Speed", min = 0.0,
\* max = 10.0) compiles to exactly one invocation of the drag build
\* operation with label "Speed", min Some(0.0), max Some(10.0), speed None
\* and power None.
C6_DragSpeed ==
    (/\ pc = "done" /\ input.data = "Struct" /\ input.named
     /\ Fields = << Field("speed", NumericScalar, << AttrOf(TopList("drag", DragSpeedArgs)) >>, 1) >>)
    => /\ outcome.st = "ok"
       /\ LET inv == Invocations(outcome.artifact.body) IN
          /\ Len(inv) = 1
          /\ inv[1].build = "Drag"
          /\ \A n \in {"label", "min", "max", "speed", "power"} : HasParam(inv[1], n)
          /\ ParamOf(inv[1], "label").s = "Speed"
          /\ ParamOf(inv[1], "min") = Param("min", "Some", 0, "")
          /\ ParamOf(inv[1], "max") = Param("max", "Some", 10, "")
          /\ ParamOf(inv[1], "speed").form = "None"
          /\ ParamOf(inv[1], "power").form = "None"

\* C7: no binding is emitted for a tag on a field whose type category is
\* outside the accepted set of the tag: input, slider and drag bindings sit
\* on numeric scalars only, combobox bindings on fixed string arrays only.
C7_TypeChecked ==
    (outcome.st = "ok" /\ Len(Fields) = 1)
    => \A k \in 1..Len(outcome.artifact.body) :
          LET st == outcome.artifact.body[k] IN
          /\ st.build \in {"Input", "Slider", "Drag"} => Fields[1].ty.cat = "NumericScalar"
          /\ st.build = "Combobox" => Fields[1].ty.cat = "FixedStringArray"

\* the literal kind the arms of parse_input / parse_slider take the key
\* with ("" for a key the widget does not declare)
DeclaredKind(widget, key) ==
    CASE widget = "input" /\ key = "label" -> "Str"
      [] widget = "input" /\ key = "precission" -> "Int"
      [] widget = "input" /\ key \in {"step", "step_fast"} -> "Float"
      [] widget = "slider" /\ key \in {"label", "display"} -> "Str"
      [] widget = "slider" /\ key \in {"min", "max"} -> "Float"
      [] OTHER -> ""

Resolve(ml) == IF ml.ident = "input" THEN parse_input(ml) ELSE parse_slider(ml)

Args == meta_list.nested
IsPair(item) == item.form = "NameValue"
Declared(item) == IsPair(item) /\ DeclaredKind(meta_list.ident, item.ident) # ""
WellKinded(item) == Declared(item) /\ DeclaredKind(meta_list.ident, item.ident) = item.lit.kind

\* C8: a declared key given a literal of the wrong kind fails with a
\* diagnostic other than the one the same pair gets under a key that the
\* widget does not declare.
C8_KindMismatchDistinct ==
    (/\ resolved.st # "none" /\ Len(Args) >= 1
     /\ Declared(Args[1]) /\ ~WellKinded(Args[1]))
    => /\ resolved.st = "err"
       /\ resolved.err.msg #
            Resolve(MetaList(meta_list.ident,
                             << [Args[1] EXCEPT !.ident = "speed"] >> \o Tail(Args))).err.msg

\* every item is a pair of a declared key and a literal of its kind, and no
\* key comes twice
NoItemError ==
    /\ \A i \in 1..Len(Args) : WellKinded(Args[i])
    /\ \A i, j \in 1..Len(Args) : Args[i].ident = Args[j].ident => i = j
Sets(key) == \E i \in 1..Len(Args) : IsPair(Args[i]) /\ Args[i].ident = key

\* C9: a slider whose argument list has no other error and sets neither min
\* nor max fails with the diagnostic that min is missing; the diagnostic
\* that max is missing comes only with min set and max not set.
C9_MinMissingFirst ==
    (resolved.st # "none" /\ meta_list.ident = "slider")
    => /\ (NoItemError /\ ~Sets("min") /\ ~Sets("max"))
            => resolved = Err(Error("list", 0, "Attribute min missing."))
       /\ (resolved.st = "err" /\ resolved.err.msg = "Attribute max missing.")
            => (Sets("min") /\ ~Sets("max"))

C9_Witness ==
    /\ resolved.st = "err" /\ meta_list.ident = "slider"
    /\ Len(Args) = 2 /\ NoItemError /\ ~Sets("min") /\ ~Sets("max")

\* the positions at which a declared key comes for the second time
SecondOccurrences ==
    { j \in 1..Len(Args) : Declared(Args[j]) /\
        Cardinality({ i \in 1..(j - 1) : IsPair(Args[i]) /\ Args[i].ident = Args[j].ident }) = 1 }

\* the first occurrence of the key of the j-th item
FirstOccurrence(j) == CHOOSE i \in 1..j : IsPair(Args[i]) /\ Args[i].ident = Args[j].ident

\* C10 as stated: whenever a declared key occurs twice (each time with a
\* literal of its kind, whatever the values), resolution fails with the
\* already-set diagnostic of that key at its second occurrence.
C10_AlreadySetAlways ==
    resolved.st # "none"
    => \A j \in SecondOccurrences :
          (WellKinded(Args[j]) /\ WellKinded(Args[FirstOccurrence(j)]))
          => resolved = Err(Error("ident", j, AlreadySet(Args[j].ident)))

\* C10 amended: when a declared key comes for the second time and every
\* item up to and including that occurrence is a pair of a declared key and
\* a literal of its kind, none of them a second occurrence itself,
\* resolution fails with the already-set diagnostic of the key, located at
\* that second occurrence.
C10_AlreadySetFirstError ==
    resolved.st # "none"
    => \A j \in SecondOccurrences :
          (/\ \A i \in 1..j : WellKinded(Args[i])
           /\ \A i \in 1..(j - 1) : i \notin SecondOccurrences)
          => resolved = Err(Error("ident", j, AlreadySet(Args[j].ident)))

C10_Witness ==
    /\ resolved.st = "err" /\ resolved.err.msg \in AlreadySetMessages
    /\ resolved.err.arg = 2 /\ 2 \in SecondOccurrences
    /\ Args[1].lit # Args[2].lit

\* C11: the rendering routine of the Gui derive constructs the events value
\* by explicit per-member default construction, never by zeroing memory,
\* before the bindings run.
C11_ExplicitDefault ==
    (derive = "Gui" /\ outcome.st = "ok")
    => outcome.artifact.events_init = "default"

\* the one imgui directive of the one field of the schema
TheDirective == Fields[1].attrs[ImguiAttrs(Fields[1].attrs)[1]]

\* the ImGuiExt derive ended on a struct of one named field that carries
\* exactly one imgui directive, well-formed as an attribute
OneDirective ==
    /\ pc = "done" /\ derive = "ImGuiExt"
    /\ input.data = "Struct" /\ input.named /\ Len(Fields) = 1
    /\ Len(ImguiAttrs(Fields[1].attrs)) = 1
    /\ TheDirective.parses

\* the directive holds exactly one item, of this form
OneItem(form) ==
    /\ TheDirective.form = "List" /\ Len(TheDirective.nested) = 1
    /\ TheDirective.nested[1].form = form

\* the derive returned one invocation of this widget for the field, labelled
\* so, every other parameter of which is None
Resolved(build, label) ==
    /\ outcome.st = "ok"
    /\ Len(outcome.artifact.body) = 1
    /\ LET st == outcome.artifact.body[1] IN
          /\ st.build = build /\ st.field = Fields[1].name
          /\ HasParam(st, "label") /\ ParamOf(st, "label").s = label
          /\ \A i \in 1..Len(st.params) :
                st.params[i].name # "label" => st.params[i].form = "None"

\* the derive returned a diagnostic of the syntax of the directive
SyntaxDiagnostic ==
    /\ outcome.st = "err" /\ ~outcome.artifact.some
    /\ outcome.err.msg \in {INVALID_ATTR_FORMAT, INVALID_IDENT}
    /\ outcome.err.field = 1
    /\ outcome.err.attr = ImguiAttrs(Fields[1].attrs)[1]

\* C13: `#[imgui]` resolves to Simple without label; a single bare word
\* input or drag resolves to that widget with every parameter absent; a
\* single `label = "..."` resolves to Simple with that label; every other
\* shape that is not a named node `kind( .. )` is a syntax diagnostic.
C13_BareWordDispatch ==
    OneDirective =>
        LET d == TheDirective
            name == Fields[1].name
        IN  CASE d.form = "Word" -> Resolved("Simple", name)
              [] OneItem("Word") /\ d.nested[1].ident = "input" -> Resolved("Input", name)
              [] OneItem("Word") /\ d.nested[1].ident = "drag" -> Resolved("Drag", name)
              [] OneItem("NameValue") /\ d.nested[1].ident = "label"
                    /\ d.nested[1].lit.kind = "Str" -> Resolved("Simple", d.nested[1].lit.s)
              [] OneItem("List") -> TRUE
              [] OTHER -> SyntaxDiagnostic

\* the derive resolved the bare word drag
C13_Witness ==
    /\ OneDirective /\ OneItem("Word") /\ TheDirective.nested[1].ident = "drag"
    /\ Resolved("Drag", "speed")

\* C14: the statement emitted for a tag of any variant passes as label the
\* label of the tag when it has one and the name of the field otherwise, and
\* holds every optional parameter of the variant, as Some of its value when
\* the tag sets it and as None when it does not.
C14_LabelAndOptions ==
    (pc = "done" /\ resolved.st = "ok" /\ body # <<>>)
    => LET a == resolved.attr
           st == body[1]
       IN  /\ Len(body) = 1 /\ st.build = a.variant
           /\ HasParam(st, "label")
           /\ ParamOf(st, "label").s = (IF a.label.some THEN a.label.s ELSE Fields[1].name)
           /\ \A q \in OptionalParams(a.variant) :
                 /\ HasParam(st, q)
                 /\ IF a[q].some
                    THEN /\ ParamOf(st, q).form = "Some"
                         /\ ParamOf(st, q).n = a[q].n /\ ParamOf(st, q).s = a[q].s
                    ELSE ParamOf(st, q).form = "None"

\* a Drag tag with a label, a speed and no display was emitted
C14_Witness ==
    /\ pc = "done" /\ resolved.st = "ok" /\ body # <<>>
    /\ resolved.attr.variant = "Drag"
    /\ resolved.attr.label.some /\ resolved.attr.speed.some /\ ~resolved.attr.display.some
    /\ body[1].build = "Drag"
    /\ ParamOf(body[1], "label").s = "Speed"
    /\ ParamOf(body[1], "display").form = "None"

=============================================================================
